---- MODULE Spec2Model ----
(***************************************************************************)
(* MinHash sketch of minhash-rs: the permutation stream (splitmix twice,  *)
(* narrowing, chained xorshift), the per-slot minimum, membership, merge,  *)
(* the Jaccard estimator and the atomic fetch-min insertion.               *)
(*                                                                         *)
(* Machine words are little-endian byte sequences: a u64 is 8 bytes, a     *)
(* u32 is 4, a u16 is 2, a u8 is 1 (TLC's integers are narrower than a     *)
(* u64).  The word type of a sketch is named by its width in bits.         *)
(***************************************************************************)
EXTENDS Integers, Sequences, FiniteSets

(***************************************************************************)
(* Bounds of the model.                                                    *)
(***************************************************************************)
\* largest number of permutations (const PERMUTATIONS) explored
MaxPermutations == 2
\* the longest iterator given to from_iter
MaxIterLen == 3
\* number of sketches held side by side (const N of MinHashArray)
NumSketches == 2
\* number of threads calling fetch_insert on the shared sketches
NumWorkers == 2

(***************************************************************************)
(* Byte arithmetic.                                                        *)
(***************************************************************************)
RECURSIVE BitXor(_, _)
\* a ^ b on naturals
BitXor(a, b) ==
    IF a = 0 THEN b
    ELSE IF b = 0 THEN a
    ELSE ((a + b) % 2) + 2 * BitXor(a \div 2, b \div 2)

RECURSIVE Pow2(_)
Pow2(k) == IF k = 0 THEN 1 ELSE 2 * Pow2(k - 1)

\* byte j (1-based, little-endian) of x, zero outside the word
ByteAt(x, j) == IF j \in 1..Len(x) THEN x[j] ELSE 0

RECURSIVE XorFrom(_, _, _)
\* bytes 1..n of x ^ y
XorFrom(x, y, n) ==
    IF n = 0 THEN <<>> ELSE Append(XorFrom(x, y, n - 1), BitXor(x[n], y[n]))

\* x ^ y on words of equal width
Xor(x, y) == XorFrom(x, y, Len(x))

RECURSIVE ShlFrom(_, _, _, _)
\* bytes 1..n of x << (8 * whole + part)
ShlFrom(x, whole, part, n) ==
    IF n = 0 THEN <<>>
    ELSE Append(ShlFrom(x, whole, part, n - 1),
                ((ByteAt(x, n - whole) * Pow2(part)) % 256)
                + (ByteAt(x, n - whole - 1) \div Pow2(8 - part)))

\* x << k on a word of Len(x) bytes (bits shifted out are lost)
Shl(x, k) == ShlFrom(x, k \div 8, k % 8, Len(x))

RECURSIVE ShrFrom(_, _, _, _)
\* bytes 1..n of x >> (8 * whole + part)
ShrFrom(x, whole, part, n) ==
    IF n = 0 THEN <<>>
    ELSE Append(ShrFrom(x, whole, part, n - 1),
                (ByteAt(x, n + whole) \div Pow2(part))
                + ((ByteAt(x, n + whole + 1) * Pow2(8 - part)) % 256))

\* x >> k on a word of Len(x) bytes (logical shift)
Shr(x, k) == ShrFrom(x, k \div 8, k % 8, Len(x))

RECURSIVE Column(_, _, _, _)
\* sum of x[i] * c[k + 1 - i] for i in 1..n: column k of the schoolbook product
Column(x, c, k, n) ==
    IF n = 0 THEN 0 ELSE x[n] * c[k + 1 - n] + Column(x, c, k, n - 1)

RECURSIVE MulFrom(_, _, _, _)
\* bytes k..Len(x) of x * c, given the carry into column k
MulFrom(x, c, k, carry) ==
    IF k > Len(x) THEN <<>>
    ELSE LET s == Column(x, c, k, k) + carry
         IN  <<s % 256>> \o MulFrom(x, c, k + 1, s \div 256)

\* x.wrapping_mul(c): the product modulo 2^(8 * Len(x))
WrappingMul(x, c) == MulFrom(x, c, 1, 0)

(***************************************************************************)
(* Word types: splitmix.rs, primitive.rs, xorshift.rs, maximal.rs,         *)
(* zero.rs, min.rs.                                                        *)
(***************************************************************************)
\* the widths, in bits, of the word types a sketch can be built over: the
\* types with Maximal (u8, u16, u32, u64, u128)
Widths == {8, 16, 32, 64, 128}

\* the widths of the word types that also have XorShift and a conversion
\* from u64, the ones a sketch can hash values into: u128 has neither
HashedWidths == {8, 16, 32, 64}

\* 0xbf58476d1ce4e5b9
SplitMixC1 == <<185, 229, 228, 28, 109, 71, 88, 191>>
\* 0x94d049bb133111eb
SplitMixC2 == <<235, 17, 49, 19, 187, 73, 208, 148>>

\* u64::splitmix
splitmix(self) ==
    LET z1 == WrappingMul(Xor(self, Shr(self, 30)), SplitMixC1)
        z2 == WrappingMul(Xor(z1, Shr(z1, 27)), SplitMixC2)
    IN  Xor(z2, Shr(z2, 31))

\* <u64 as Primitive<Word>>::convert: `self as Word` keeps the low-order bytes
convert(self, w) == SubSeq(self, 1, w \div 8)

\* `x as u32` of a narrower word: zero extension
ZeroExtend(x, bytes) == x \o SubSeq(<<0, 0, 0, 0, 0, 0, 0, 0>>, 1, bytes - Len(x))

\* <u64 as XorShift>::xorshift
xorshift64(self) ==
    LET a == Xor(self, Shl(self, 13))
        b == Xor(a, Shr(a, 7))
    IN  Xor(b, Shl(b, 17))

\* <u32 as XorShift>::xorshift
xorshift32(self) ==
    LET a == Xor(self, Shl(self, 13))
        b == Xor(a, Shr(a, 17))
    IN  Xor(b, Shl(b, 5))

\* a u16 transform that goes through u64 in place of u32
xorshift16_through_u64(self) == SubSeq(xorshift64(ZeroExtend(self, 8)), 1, 2)

\* <u16 as XorShift>::xorshift: the u32 transform of the widened word, narrowed
xorshift16(self) == SubSeq(xorshift32(ZeroExtend(self, 4)), 1, 2)

\* a u8 transform that goes through u32 the way the u16 one does
xorshift8_through_u32(self) == SubSeq(xorshift32(ZeroExtend(self, 4)), 1, 1)

\* <u8 as XorShift>::xorshift
xorshift8(self) ==
    LET a == Xor(self, Shl(self, 3))
        b == Xor(a, Shr(a, 7))
    IN  Xor(b, Shl(b, 1))

\* Word::xorshift, by the width of Word
xorshift(self, w) ==
    CASE w = 8  -> xorshift8(self)
      [] w = 16 -> xorshift16(self)
      [] w = 32 -> xorshift32(self)
      [] w = 64 -> xorshift64(self)

\* the widths, in bits, of usize on the targets the crate builds for (it uses std)
PointerWidths == {32, 64}

\* <usize as XorShift>::xorshift where usize has `bits` bits:
\* (*self as u64).xorshift() as usize
xorshift_usize(self, bits) ==
    SubSeq(xorshift64(ZeroExtend(self, 8)), 1, bits \div 8)

\* Word::maximal(): Word::MAX
maximal(w) ==
    SubSeq(<<255, 255, 255, 255, 255, 255, 255, 255,
             255, 255, 255, 255, 255, 255, 255, 255>>, 1, w \div 8)

\* Word::zero()
zero(w) == SubSeq(<<0, 0, 0, 0, 0, 0, 0, 0, 0, 0, 0, 0, 0, 0, 0, 0>>, 1, w \div 8)

RECURSIVE LessEqFrom(_, _, _)
\* a <= b on the bytes 1..n, the most significant byte being byte n
LessEqFrom(a, b, n) ==
    IF n = 0 THEN TRUE
    ELSE IF a[n] # b[n] THEN a[n] < b[n]
    ELSE LessEqFrom(a, b, n - 1)

\* is_min written as the trait's comment has it ("true if self is less than
\* other"): a strict comparison
is_min_strict(self, other) == ~LessEqFrom(other, self, Len(self))

\* Min::is_min: *self <= other
is_min(self, other) == LessEqFrom(self, other, Len(self))

\* set_min that assigns without comparing: *self = other
set_min_overwrite(self, other) == other

\* Min::set_min: the value of *self after *self = (*self).min(other)
set_min(self, other) == IF LessEqFrom(self, other, Len(self)) THEN self ELSE other

(***************************************************************************)
(* The permutation stream: IterHashes::iter_hashes_from_value.  The digest *)
(* is what hasher.finish() returned for the value; every hash family       *)
(* (SipHash-1-3 or FNV, keyed or not) goes through the same code from      *)
(* there on.                                                               *)
(***************************************************************************)
\* the digests hasher.finish() returns for the values the callers insert:
\* 0 has the stream 0, 0, ...; the streams of 7, 150 and 807 are pairwise
\* smaller at one position and larger at the next; the u8 stream of 807
\* starts with u8::MAX
Digests == { <<0, 0, 0, 0, 0, 0, 0, 0>>,
             <<7, 0, 0, 0, 0, 0, 0, 0>>,
             <<150, 0, 0, 0, 0, 0, 0, 0>>,
             <<39, 3, 0, 0, 0, 0, 0, 0>> }

\* a seed scrambled by one round only
seed_of_one_round(digest, w) == convert(splitmix(digest), w)

\* the value of `hash` before the first permutation
seed_of(digest, w) == convert(splitmix(splitmix(digest)), w)

RECURSIVE iter_hashes_from_seed(_, _, _)
\* an iterator that yields the hash before advancing it: the seed comes first
iter_hashes_from_seed(digest, w, p) ==
    IF p = 0 THEN <<>>
    ELSE LET prev == iter_hashes_from_seed(digest, w, p - 1)
         IN  Append(prev, IF p = 1 THEN seed_of(digest, w)
                          ELSE xorshift(prev[p - 1], w))

RECURSIVE iter_hashes_from_value(_, _, _)
\* the first p items of the iterator: hash = hash.xorshift(); hash
iter_hashes_from_value(digest, w, p) ==
    IF p = 0 THEN <<>>
    ELSE LET prev == iter_hashes_from_value(digest, w, p - 1)
             hash == IF p = 1 THEN seed_of(digest, w) ELSE prev[p - 1]
         IN  Append(prev, xorshift(hash, w))

\* iter_hashes_from_value of the digests above, evaluated once
Streams ==
    { [w |-> w, digest |-> d,
       hashes |-> iter_hashes_from_value(d, w, MaxPermutations)] :
      w \in HashedWidths, d \in Digests }

StreamOf(digest, w) == CHOOSE r \in Streams : r.w = w /\ r.digest = digest

\* Self::iter_*_from_value(value) zipped with p words: its first p items
iter_hashes(digest, w, p) ==
    IF digest \in Digests /\ p <= MaxPermutations
    THEN SubSeq(StreamOf(digest, w).hashes, 1, p)
    ELSE iter_hashes_from_value(digest, w, p)

\* Self::iter_siphashes13_from_value(value): iter_hashes_from_value with
\* SipHasher13::new(); digest is what that hasher finishes with
iter_siphashes13_from_value(digest, w, p) == iter_hashes(digest, w, p)

\* Self::iter_keyed_siphashes13_from_value(value, key0, key1): the same with
\* SipHasher13::new_with_keys(key0, key1)
iter_keyed_siphashes13_from_value(digest, w, p) == iter_hashes(digest, w, p)

\* Self::iter_fvn_from_value(value): the same with FnvHasher::default()
iter_fvn_from_value(digest, w, p) == iter_hashes(digest, w, p)

\* Self::iter_keyed_fvn_from_value(value, key): the same with
\* FnvHasher::with_key(key)
iter_keyed_fvn_from_value(digest, w, p) == iter_hashes(digest, w, p)

(***************************************************************************)
(* MinHash<Word, PERMUTATIONS>: minhash.rs, intersection.rs.  A sketch is  *)
(* its array `words`; w is the width of Word.                              *)
(***************************************************************************)
RECURSIVE new_zeroed(_, _)
\* a constructor that leaves the words at the zero sentinel
new_zeroed(w, p) == IF p = 0 THEN <<>> ELSE Append(new_zeroed(w, p - 1), zero(w))

RECURSIVE new(_, _)
\* MinHash::new / default: every word is Word::maximal()
new(w, p) == IF p = 0 THEN <<>> ELSE Append(new(w, p - 1), maximal(w))

RECURSIVE ZipSetMin(_, _, _)
\* the first n words after `for (word, other) in zip { word.set_min(other) }`
ZipSetMin(words, others, n) ==
    IF n = 0 THEN <<>>
    ELSE Append(ZipSetMin(words, others, n - 1), set_min(words[n], others[n]))

\* an insert that assigns the hashes to the words: *word = hash
insert_assign(words, digest, w) == iter_hashes(digest, w, Len(words))

\* insert_with_siphashes13 / _keyed_siphashes13 / _fvn / _keyed_fvn: the words
\* after zipping them with the value's hashes and calling set_min on each
insert(words, digest, w) ==
    ZipSetMin(words, iter_hashes(digest, w, Len(words)), Len(words))

\* a may_contain satisfied by one pair: .any(..) in place of .all(..)
may_contain_any(words, digest, w) ==
    LET hashes == iter_hashes(digest, w, Len(words))
    IN  \E i \in 1..Len(words) : is_min(words[i], hashes[i])

\* a may_contain that gives up on a sketch whose words are all Word::MAX
may_contain_unless_maximal(words, digest, w) ==
    LET hashes == iter_hashes(digest, w, Len(words))
    IN  /\ \E i \in 1..Len(words) : words[i] # maximal(w)
        /\ \A i \in 1..Len(words) : is_min(words[i], hashes[i])

\* may_contain_value_with_*: all zipped (word, hash) pairs satisfy word.is_min(hash)
may_contain(words, digest, w) ==
    LET hashes == iter_hashes(digest, w, Len(words))
    IN  \A i \in 1..Len(words) : is_min(words[i], hashes[i])

\* an is_empty satisfied by one word: .any(..) in place of .all(..)
is_empty_any(words, w) == \E i \in 1..Len(words) : words[i] = maximal(w)

\* MinHash::is_empty
is_empty(words, w) == \A i \in 1..Len(words) : words[i] = maximal(w)

\* MinHash::is_full
is_full(words, w) == \A i \in 1..Len(words) : words[i] = zero(w)

\* a memory() that counts bytes: without the `* 8`
memory_in_bytes(w, p) == p * (w \div 8)

\* MinHash::memory
memory(w, p) == p * (w \div 8) * 8

\* a from_iter that takes the first item only
from_iter_first(iter, w, p) ==
    IF iter = <<>> THEN new(w, p) ELSE insert(new(w, p), iter[1], w)

RECURSIVE from_iter_loop(_, _, _)
\* for item in iter { hll.insert_with_siphashes13(item) }; hll
from_iter_loop(hll, iter, w) ==
    IF Len(iter) = 0 THEN hll
    ELSE from_iter_loop(insert(hll, iter[1], w), SubSeq(iter, 2, Len(iter)), w)

\* FromIterator::from_iter
from_iter(iter, w, p) == from_iter_loop(new(w, p), iter, w)

\* Index<usize> for MinHash: &self.words[index]; indexing the array panics
\* when index >= PERMUTATIONS
index(words, i) ==
    IF i < Len(words) THEN [outcome |-> "ok", value |-> words[i + 1]]
    ELSE [outcome |-> "panic"]

\* Index<usize> for MinHashArray: &self.counters[index]; a panic when
\* index >= N
array_index(array, i) ==
    IF i < Len(array) THEN [outcome |-> "ok", value |-> array[i + 1]]
    ELSE [outcome |-> "panic"]

\* IndexMut<usize> for MinHash, assigned through: self[index] = word; a panic
\* when index >= PERMUTATIONS, before anything is written
index_mut(words, i, word) ==
    IF i < Len(words)
    THEN [outcome |-> "ok", words |-> [words EXCEPT ![i + 1] = word]]
    ELSE [outcome |-> "panic"]

\* a batch whose entries are one and the same sketch
array_index_mut_shared(array, i, entry) ==
    IF i < Len(array)
    THEN [outcome |-> "ok", array |-> [k \in DOMAIN array |-> entry]]
    ELSE [outcome |-> "panic"]

\* IndexMut<usize> for MinHashArray, assigned through: the entry at index
\* becomes `entry`; a panic when index >= N
array_index_mut(array, i, entry) ==
    IF i < Len(array)
    THEN [outcome |-> "ok", array |-> [array EXCEPT ![i + 1] = entry]]
    ELSE [outcome |-> "panic"]

\* a as f64 / b as f64, for small non-negative integers a and b: a finite
\* quotient is kept as its numerator and denominator; x / 0.0 is NaN for
\* x = 0 and infinite otherwise
F64Div(a, b) ==
    IF b # 0 THEN [class |-> "finite", num |-> a, den |-> b]
    ELSE IF a = 0 THEN [class |-> "NaN", num |-> a, den |-> b]
    ELSE [class |-> "inf", num |-> a, den |-> b]

RECURSIVE CountEqual(_, _, _)
\* sum of (l == r) as usize over the first n zipped pairs
CountEqual(self, other, n) ==
    IF n = 0 THEN 0
    ELSE (IF self[n] = other[n] THEN 1 ELSE 0) + CountEqual(self, other, n - 1)

\* MinHash::estimate_jaccard_index
estimate_jaccard_index(self, other) ==
    F64Div(CountEqual(self, other, Len(self)), Len(self))

\* a merge that copies the right operand: *left = right.clone()
bitand_assign_copy(self, rhs) == rhs

\* BitAndAssign::bitand_assign: the words of self after self &= rhs
bitand_assign(self, rhs) == ZipSetMin(self, rhs, Len(self))

\* a `&` that returns self without merging rhs into it
bitand_self(self, rhs) == self

\* BitAnd::bitand: self & rhs
bitand(self, rhs) == bitand_assign(self, rhs)

\* AtomicFetchMin::set_min on an atomic word: the word it holds after
\* self.fetch_min(value, ordering)
fetch_min(word, value) == IF LessEqFrom(word, value, Len(word)) THEN word ELSE value

\* iter_atomic transmutes &[Word] to &[AtomicWord] and fetch_insert stores
\* through that view.  The words of a MinHash are not in an UnsafeCell, so
\* the stores are undefined behaviour, and a build produces one of these:
\*   - the atomic instruction changes the word in memory, or the build
\*     leaves it out and the word in memory stays (through);
\*   - the build takes a word behind a reference as unchanged and goes on
\*     using a word it holds (load);
\*   - the build leaves out a plain write of the word it holds for the
\*     slot (plain_write), the writes of Word::MAX by a new() over the
\*     storage of a dropped array among them (ArrayNew).

\* storing `word` through the view over a slot that holds `was`: the word in
\* memory afterwards
through(was, word) == {word, was}

\* A plain read (`*word`, self.words[i]) gives the word in memory, or one of
\* the words `had`: the words the slot has had since the last plain write to
\* it (that write's word, and every word stored through the view since, any
\* of which a plain read may have taken in between).
load(word, had) == {word} \cup had

RECURSIVE LoadsFrom(_, _, _)
\* the plain reads of the first n words, every word being read on its own
LoadsFrom(words, had, n) ==
    IF n = 0 THEN {<<>>}
    ELSE {Append(before, word) :
            before \in LoadsFrom(words, had, n - 1),
            word \in load(words[n], had[n])}

\* the plain reads of the words of a sketch
loads(words, had) == LoadsFrom(words, had, Len(words))

\* what the slots have had after plain writes that were all carried out left
\* `words` in them
written(words) == [i \in 1..Len(words) |-> {words[i]}]

\* what the slots have had after stores through the view left `words` in them
stored(had, words) == [i \in 1..Len(words) |-> had[i] \cup {words[i]}]

\* the slots whose plain write the build may leave out: the word to write is
\* the word it read from the slot, while the slot holds or has had another
elidable(words, had, read, value) ==
    {i \in 1..Len(words) :
        value[i] = read[i] /\ (words[i] # value[i] \/ had[i] # {value[i]})}

\* the plain writes of the words `value` over `words` by a build that read
\* `read` from them: the words in memory and what the slots have had
\* afterwards, a slot whose write was left out keeping both
plain_write(words, had, read, value) ==
    {[words |-> [i \in 1..Len(words) |-> IF i \in left THEN words[i] ELSE value[i]],
      had   |-> [i \in 1..Len(words) |-> IF i \in left THEN had[i] ELSE {value[i]}]] :
        left \in SUBSET elidable(words, had, read, value)}

RECURSIVE ZipFetchMin(_, _, _)
\* the first n words in memory after
\* `for (word, hash) in self.iter_atomic().zip(..) { word.set_min(hash, ordering) }`
\* in a build: each fetch_min stored, or left out
ZipFetchMin(words, hashes, n) ==
    IF n = 0 THEN {<<>>}
    ELSE {Append(before, word) :
            before \in ZipFetchMin(words, hashes, n - 1),
            word \in through(words[n], fetch_min(words[n], hashes[n]))}

\* fetch_insert_with_siphashes13 / _keyed_siphashes13 run to completion by one
\* thread with no other call in progress: the words a build may leave in
\* memory
fetch_insert(words, digest, w) ==
    ZipFetchMin(words, iter_hashes(digest, w, Len(words)), Len(words))

\* an intersection() that keeps the last sketch: result = minhash
intersection_last(iter, w, p) == IF iter = <<>> THEN new(w, p) ELSE iter[Len(iter)]

RECURSIVE intersection(_, _, _)
\* MinHashIterator::intersection over the sequence of sketches `iter`
intersection(iter, w, p) ==
    IF iter = <<>> THEN new(w, p)
    ELSE bitand_assign(intersection(SubSeq(iter, 1, Len(iter) - 1), w, p),
                       iter[Len(iter)])

(***************************************************************************)
(* State.                                                                  *)
(***************************************************************************)
VARIABLES
    Word,           \* width in bits of the type parameter Word
    PERMUTATIONS,   \* the const parameter PERMUTATIONS
    counters,       \* MinHashArray::counters: the words of each sketch, in memory
    held,           \* per sketch and slot, the words the build may hold for
                    \* it: those the slot has had since the last plain write
                    \* to it
    inserted,       \* per sketch, the digests of the calls completed on it or
                    \* on a sketch merged into it
    workers         \* per thread, its fetch_insert call in progress, if any

vars == <<Word, PERMUTATIONS, counters, held, inserted, workers>>

Sketches == 1..NumSketches
Threads == 1..NumWorkers

Idle == [pc |-> "idle"]

AllIdle == \A t \in Threads : workers[t] = Idle

\* the first MinHashArray::new of the program, for some Word and
\* PERMUTATIONS: nothing was stored through the view before it, and every
\* build writes Word::MAX to every slot; no call in progress
Init ==
    /\ Word \in Widths
    /\ PERMUTATIONS \in 0..MaxPermutations
    /\ counters = [k \in Sketches |-> new(Word, PERMUTATIONS)]
    /\ held = [k \in Sketches |-> written(counters[k])]
    /\ inserted = [k \in Sketches |-> {}]
    /\ workers = [t \in Threads |-> Idle]

\* the plain reads of the words of sketch k
Loads(k) == loads(counters[k], held[k])

(***************************************************************************)
(* Single-owner operations (&mut self): no fetch_insert may be in          *)
(* progress on the borrowed array.  They read the words plainly and write  *)
(* them plainly (plain_write).                                             *)
(***************************************************************************)
\* counters[k].insert_with_*(value), digest being the value's hash; the
\* method exists for the words with XorShift and a conversion from u64
Insert(k, digest) ==
    /\ AllIdle
    /\ Word \in HashedWidths
    /\ UNCHANGED <<Word, PERMUTATIONS, workers>>
    /\ inserted' = [inserted EXCEPT ![k] = @ \cup {digest}]
    /\ \E words \in Loads(k) :
          \E out \in plain_write(counters[k], held[k], words,
                                 insert(words, digest, Word)) :
              /\ counters' = [counters EXCEPT ![k] = out.words]
              /\ held' = [held EXCEPT ![k] = out.had]

\* counters[j] &= counters[k]
BitAndAssign(j, k) ==
    /\ AllIdle
    /\ UNCHANGED <<Word, PERMUTATIONS, workers>>
    /\ inserted' = [inserted EXCEPT ![j] = @ \cup inserted[k]]
    /\ \E self \in Loads(j), rhs \in Loads(k) :
          \E out \in plain_write(counters[j], held[j], self,
                                 bitand_assign(self, rhs)) :
              /\ counters' = [counters EXCEPT ![j] = out.words]
              /\ held' = [held EXCEPT ![j] = out.had]

\* counters[k].fetch_insert_with_*(value, ordering) by the owner, as in the doc
\* tests: no other thread is running, so nothing interleaves with its loop.
\* Each word changes in memory or its fetch_min is left out; the build may go
\* on using the words it holds
FetchInsert(k, digest) ==
    /\ AllIdle
    /\ Word \in HashedWidths
    /\ \E words \in fetch_insert(counters[k], digest, Word) :
          counters' = [counters EXCEPT ![k] = words]
    /\ held' = [held EXCEPT ![k] = stored(@, counters'[k])]
    /\ inserted' = [inserted EXCEPT ![k] = @ \cup {digest}]
    /\ UNCHANGED <<Word, PERMUTATIONS, workers>>

(***************************************************************************)
(* AtomicMinHash::fetch_insert_with_* on a sketch shared by reference      *)
(* (&self): one atomic fetch_min per word, the threads interleaving        *)
(* between them.  The atomic instructions act on the words in memory, or   *)
(* the build leaves them out; it may go on using the words it holds.       *)
(***************************************************************************)
\* the call on counters[k] is entered: the zipped iterators are built, the
\* hashes' one from the value's digest; `index` counts the pairs taken from
\* them so far
FetchInsertCall(t, k, digest) ==
    /\ Word \in HashedWidths
    /\ workers[t] = Idle
    /\ workers' = [workers EXCEPT ![t] =
            [pc |-> "loop", sketch |-> k, digest |-> digest, index |-> 0]]
    /\ UNCHANGED <<Word, PERMUTATIONS, counters, held, inserted>>

\* one turn of the loop: the next (word, hash) pair, and
\* word.set_min(hash, ordering), stored or left out
FetchMin(t) ==
    /\ workers[t] # Idle
    /\ workers[t].index < PERMUTATIONS
    /\ LET k    == workers[t].sketch
           i    == workers[t].index + 1
           hash == iter_hashes(workers[t].digest, Word, i)[i]
       IN  /\ \E word \in through(counters[k][i], fetch_min(counters[k][i], hash)) :
                  counters' = [counters EXCEPT ![k][i] = word]
           /\ held' = [held EXCEPT ![k][i] = @ \cup {counters'[k][i]}]
           /\ workers' = [workers EXCEPT ![t].index = i]
    /\ UNCHANGED <<Word, PERMUTATIONS, inserted>>

\* the zipped iterators are exhausted: the call returns
FetchInsertReturn(t) ==
    /\ workers[t] # Idle
    /\ workers[t].index = PERMUTATIONS
    /\ workers' = [workers EXCEPT ![t] = Idle]
    /\ inserted' = [inserted EXCEPT ![workers[t].sketch] = @ \cup {workers[t].digest}]
    /\ UNCHANGED <<Word, PERMUTATIONS, counters, held>>

Next ==
    \/ \E k \in Sketches, digest \in Digests : Insert(k, digest)
    \/ \E j \in Sketches, k \in Sketches : BitAndAssign(j, k)

\* the values given to the concurrent fetch_insert calls
CallDigests == { <<7, 0, 0, 0, 0, 0, 0, 0>>, <<150, 0, 0, 0, 0, 0, 0, 0>> }

NextAtomic ==
    \/ \E t \in Threads, k \in Sketches, digest \in CallDigests :
          FetchInsertCall(t, k, digest)
    \/ \E t \in Threads : FetchMin(t)
    \/ \E t \in Threads : FetchInsertReturn(t)

\* single-owner use of the sketches through &mut self: inserts and merges
Spec == Init /\ [][Next]_vars

\* threads sharing the sketches through fetch_insert
SpecAtomic == Init /\ [][NextAtomic]_vars

\* the value the owner inserts and the value it gives to fetch_insert
InsertDigests == { <<7, 0, 0, 0, 0, 0, 0, 0>> }
FetchInsertDigests == { <<150, 0, 0, 0, 0, 0, 0, 0>> }

\* the owner's operations with its fetch_insert calls among them
NextOwner ==
    \/ \E k \in Sketches, digest \in InsertDigests : Insert(k, digest)
    \/ \E j \in Sketches, k \in Sketches : BitAndAssign(j, k)
    \/ \E k \in Sketches, digest \in FetchInsertDigests : FetchInsert(k, digest)

\* single-owner use of the sketches, fetch_insert included
SpecOwner == Init /\ [][NextOwner]_vars

\* the value the threads give to fetch_insert under fair scheduling
FairCallDigests == { <<7, 0, 0, 0, 0, 0, 0, 0>> }

NextAtomicFair ==
    \/ \E t \in Threads, k \in Sketches, digest \in FairCallDigests :
          FetchInsertCall(t, k, digest)
    \/ \E t \in Threads : FetchMin(t)
    \/ \E t \in Threads : FetchInsertReturn(t)

\* threads sharing the sketches, every thread that is inside a call being
\* scheduled again: its loop has no lock and no wait, so its next step is
\* always enabled
SpecAtomicFair ==
    /\ Init
    /\ [][NextAtomicFair]_vars
    /\ \A t \in Threads :
          WF_vars(FetchMin(t)) /\ WF_vars(FetchInsertReturn(t))

(***************************************************************************)
(* FromIterator for MinHash: the first sketch is built from an iterator.   *)
(***************************************************************************)
\* the finite iterators of values, each value given by its digest
Iterators == UNION { [1..n -> Digests] : n \in 0..MaxIterLen }

\* counters[0] = MinHash::from_iter(iter)
FromIter(iter) ==
    /\ AllIdle
    /\ Word \in HashedWidths
    /\ \E words \in Loads(1) :
          \E out \in plain_write(counters[1], held[1], words,
                                 from_iter(iter, Word, PERMUTATIONS)) :
              /\ counters' = [counters EXCEPT ![1] = out.words]
              /\ held' = [held EXCEPT ![1] = out.had]
    /\ inserted' = [inserted EXCEPT ![1] = {iter[n] : n \in 1..Len(iter)}]
    /\ UNCHANGED <<Word, PERMUTATIONS, workers>>

NextFromIter == \E iter \in Iterators : FromIter(iter)

\* sketches collected from iterators
SpecFromIter == Init /\ [][NextFromIter]_vars

(***************************************************************************)
(* MinHashArray with its entries inspected and written by position:        *)
(* array[k][i] = word, next to the inserts and merges of the entries.      *)
(***************************************************************************)
\* the words written into slots
WrittenWords == {zero(Word)}

\* the word stored through iter_atomic(), and the entries and the slots it
\* is stored to
StoredWords == {zero(Word)}
StoredEntries == {0}
StoredSlots == 0..(MaxPermutations - 1)

\* the value inserted into the entries of the batch
ArrayDigests == { <<7, 0, 0, 0, 0, 0, 0, 0>> }

\* array[k][i] = word, k and i counted from 0; an index out of bounds panics
\* and nothing is written.  One word is written: array[k].as_mut()[i] = word
\* and a write through array[k].iter_mut() do the same
IndexMut(k, i, word) ==
    /\ AllIdle
    /\ array_index(counters, k).outcome = "ok"
    /\ index_mut(counters[k + 1], i, word).outcome = "ok"
    /\ UNCHANGED <<Word, PERMUTATIONS, inserted, workers>>
    /\ \E read \in load(counters[k + 1][i + 1], held[k + 1][i + 1]) :
          \E out \in plain_write(<<counters[k + 1][i + 1]>>, <<held[k + 1][i + 1]>>,
                                 <<read>>, <<word>>) :
              /\ counters' = array_index_mut(counters, k,
                      index_mut(counters[k + 1], i, out.words[1]).words).array
              /\ held' = [held EXCEPT ![k + 1][i + 1] = out.had[1]]

\* array[k] = array[j], k and j counted from 0: the entry is read plainly and
\* copied (MinHash is Copy) over the entry at k; an index out of bounds panics
ArrayIndexMut(k, j) ==
    /\ AllIdle
    /\ array_index(counters, j).outcome = "ok"
    /\ array_index(counters, k).outcome = "ok"
    /\ UNCHANGED <<Word, PERMUTATIONS, workers>>
    /\ inserted' = [inserted EXCEPT ![k + 1] = inserted[j + 1]]
    /\ \E entry \in Loads(j + 1), words \in Loads(k + 1) :
          /\ k = j => words = entry
          /\ \E out \in plain_write(counters[k + 1], held[k + 1], words, entry) :
                /\ counters' = array_index_mut(counters, k, out.words).array
                /\ held' = [held EXCEPT ![k + 1] = out.had]

\* array[k] = MinHash::new(), k counted from 0: a fresh sketch is written over
\* the entry at k; an index out of bounds panics
ArrayIndexMutNew(k) ==
    /\ AllIdle
    /\ array_index(counters, k).outcome = "ok"
    /\ UNCHANGED <<Word, PERMUTATIONS, workers>>
    /\ inserted' = [inserted EXCEPT ![k + 1] = {}]
    /\ \E words \in Loads(k + 1) :
          \E out \in plain_write(counters[k + 1], held[k + 1], words,
                                 new(Word, PERMUTATIONS)) :
              /\ counters' = array_index_mut(counters, k, out.words).array
              /\ held' = [held EXCEPT ![k + 1] = out.had]

\* MinHash::new() over the storage of the entry at k, counted from 1: the
\* words in memory and what the slots have had afterwards
new_over(k) ==
    UNION {plain_write(counters[k], held[k], words, new(Word, PERMUTATIONS)) :
              words \in Loads(k)}

RECURSIVE NewOverFirst(_)
\* the first n entries of the new array
NewOverFirst(n) ==
    IF n = 0 THEN {<<>>}
    ELSE {Append(array, entry) : array \in NewOverFirst(n - 1), entry \in new_over(n)}

\* the array is dropped and the next MinHashArray::new() takes its storage:
\* every entry is MinHash::new(), Word::MAX written to every slot.  A slot
\* stored to through the view of the dropped array may keep the stored word,
\* the build leaving the write of Word::MAX out
ArrayNew ==
    /\ AllIdle
    /\ UNCHANGED <<Word, PERMUTATIONS, workers>>
    /\ inserted' = [k \in Sketches |-> {}]
    /\ \E array \in NewOverFirst(NumSketches) :
          /\ counters' = [k \in Sketches |-> array[k].words]
          /\ held' = [k \in Sketches |-> array[k].had]

\* array[k].iter_atomic().nth(i).store(word, ordering): iter_atomic is public
\* and takes &self, and its atomics take any word; the word is stored through
\* the view, or the store is left out
IterAtomicStore(k, i, word) ==
    /\ Word \in HashedWidths
    /\ array_index(counters, k).outcome = "ok"
    /\ i < PERMUTATIONS
    /\ UNCHANGED <<Word, PERMUTATIONS, inserted, workers>>
    /\ \E stored_word \in through(counters[k + 1][i + 1], word) :
          counters' = [counters EXCEPT ![k + 1][i + 1] = stored_word]
    /\ held' = [held EXCEPT ![k + 1][i + 1] = @ \cup {counters'[k + 1][i + 1]}]

NextArray ==
    \/ \E k \in 0..NumSketches, i \in 0..MaxPermutations, word \in WrittenWords :
          IndexMut(k, i, word)
    \/ \E k \in 0..NumSketches, j \in 0..NumSketches : ArrayIndexMut(k, j)
    \/ \E k \in 0..NumSketches : ArrayIndexMutNew(k)
    \/ ArrayNew
    \/ \E k \in Sketches, digest \in ArrayDigests : Insert(k, digest)
    \/ \E j \in Sketches, k \in Sketches : BitAndAssign(j, k)

\* batches of sketches used entry by entry by their owner, nothing being
\* stored through iter_atomic()
SpecArray == Init /\ [][NextArray]_vars

(***************************************************************************)
(* The owner's use of the atomic view next to its plain operations:        *)
(* fetch_insert and stores through iter_atomic(), inserts, and new arrays  *)
(* over the storage of dropped ones.                                       *)
(***************************************************************************)
NextView ==
    \/ \E k \in Sketches, digest \in CallDigests : FetchInsert(k, digest)
    \/ \E k \in StoredEntries, i \in StoredSlots, word \in StoredWords :
          IterAtomicStore(k, i, word)
    \/ ArrayNew
    \/ \E k \in Sketches, digest \in InsertDigests : Insert(k, digest)

\* one owner going between the view and its plain operations
SpecView == Init /\ [][NextView]_vars

(***************************************************************************)
(* Vocabulary of the properties.                                           *)
(***************************************************************************)
\* the values, by digest, that can be hashed into a sketch of the state's
\* Word: none for u128, which has no insert and no may_contain
Values == IF Word \in HashedWidths THEN Digests ELSE {}

\* a <= b as unsigned numbers written little-endian: equal, or smaller at the
\* most significant byte where they differ
WordLeq(a, b) ==
    \/ a = b
    \/ \E n \in 1..Len(a) :
          /\ a[n] < b[n]
          /\ \A m \in (n + 1)..Len(a) : a[m] = b[m]

\* x is a value of the type Word
IsWord(x) == Len(x) = Word \div 8 /\ \A n \in 1..Len(x) : x[n] \in 0..255

\* the least word of a non-empty set of words
MinWord(S) == CHOOSE m \in S : \A x \in S : WordLeq(m, x)

\* what the permutation stream of the value with this digest produces at
\* position i (1-based) for the sketches' Word
StreamAt(digest, i) == iter_hashes(digest, Word, PERMUTATIONS)[i]

RECURSIVE InsertSeq(_, _)
\* the words after inserting the values of seq, in order, one call each
InsertSeq(words, seq) ==
    IF seq = <<>> THEN words
    ELSE insert(InsertSeq(words, SubSeq(seq, 1, Len(seq) - 1)), seq[Len(seq)], Word)

\* the orders in which the elements of S can be listed once each
Orders(S) ==
    { seq \in [1..Cardinality(S) -> S] :
        \A i, j \in 1..Cardinality(S) : i # j => seq[i] # seq[j] }

\* some listing of S
SomeOrder(S) == CHOOSE seq \in Orders(S) : TRUE

\* two digests whose streams are each the smaller one at one of the first
\* two positions
Crossing(d, e) ==
    /\ PERMUTATIONS >= 2
    /\ WordLeq(StreamAt(d, 1), StreamAt(e, 1)) /\ StreamAt(d, 1) # StreamAt(e, 1)
    /\ WordLeq(StreamAt(e, 2), StreamAt(d, 2)) /\ StreamAt(d, 2) # StreamAt(e, 2)

(***************************************************************************)
(* C1: after any sequence of insert calls from new(), every slot i holds   *)
(* the minimum, over the elements inserted, of the value the element's     *)
(* permutation stream produces at position i, and Word::MAX if there is    *)
(* none.  (inserted[k] is the set of elements folded into sketch k.)       *)
(***************************************************************************)
C1_SlotHoldsMinimumOfStreams ==
    \A k \in Sketches :
        /\ Len(counters[k]) = PERMUTATIONS
        /\ \A i \in 1..PERMUTATIONS :
              counters[k][i] =
                  MinWord({maximal(Word)} \cup {StreamAt(d, i) : d \in inserted[k]})

\* a sketch with two inserted elements, each of which decides one slot
C1_Witness ==
    \E k \in Sketches : \E d, e \in inserted[k] :
        /\ Crossing(d, e)
        /\ counters[k][1] = StreamAt(d, 1)
        /\ counters[k][2] = StreamAt(e, 2)

(***************************************************************************)
(* C2: once every concurrent fetch_insert call on the shared sketch has    *)
(* returned, the sketch equals the one built by inserting the same         *)
(* elements one after the other with insert, whatever the interleaving of  *)
(* the fetch-min steps was.                                                *)
(***************************************************************************)
\* stated of the words in memory; a plain read of them may give still others
C2_ConcurrentEqualsSequential ==
    AllIdle =>
        \A k \in Sketches :
            counters[k] = InsertSeq(new(Word, PERMUTATIONS), SomeOrder(inserted[k]))

(***************************************************************************)
(* C3: no false negatives: may_contain is true of every element inserted   *)
(* into the sketch, also after further insertions.                         *)
(***************************************************************************)
C3_NoFalseNegative ==
    \A k \in Sketches : \A d \in inserted[k] : may_contain(counters[k], d, Word)

\* an element was inserted, another one after it, and may_contain still tells
\* the sketch's elements from some value that was never inserted
C3_Witness ==
    \E k \in Sketches :
        /\ Cardinality(inserted[k]) >= 2
        /\ \A d \in inserted[k] : may_contain(counters[k], d, Word)
        /\ \E e \in Values \ inserted[k] : ~may_contain(counters[k], e, Word)

(***************************************************************************)
(* C4: monotonicity: no step of insert, merge or fetch_insert makes a slot *)
(* larger than it was, and a slot stays an unsigned word (never below 0).  *)
(***************************************************************************)
C4_SlotsNeverGrow ==
    [][\A k \in Sketches : \A i \in 1..PERMUTATIONS :
            /\ WordLeq(counters'[k][i], counters[k][i])
            /\ IsWord(counters'[k][i])
            /\ WordLeq(zero(Word), counters'[k][i])]_vars

(***************************************************************************)
(* C5: the sketch depends only on the set of inserted elements: inserting  *)
(* an element again changes nothing, and every order of insertion of the   *)
(* elements gives the same sketch.                                         *)
(***************************************************************************)
C5_InsertionOrderAndRepeatsIrrelevant ==
    \A k \in Sketches :
        /\ \A seq \in Orders(inserted[k]) :
              InsertSeq(new(Word, PERMUTATIONS), seq) = counters[k]
        /\ \A d \in inserted[k] : insert(counters[k], d, Word) = counters[k]
        /\ \A d, e \in Values :
              /\ insert(insert(counters[k], d, Word), d, Word)
                    = insert(counters[k], d, Word)
              /\ insert(insert(counters[k], d, Word), e, Word)
                    = insert(insert(counters[k], e, Word), d, Word)

\* three elements are in, and the order matters to the intermediate sketches:
\* two of them decide one slot each
C5_Witness ==
    \E k \in Sketches :
        /\ Cardinality(inserted[k]) = 3
        /\ \E d, e \in inserted[k] :
              /\ Crossing(d, e)
              /\ insert(new(Word, PERMUTATIONS), d, Word)
                    # insert(new(Word, PERMUTATIONS), e, Word)
              /\ counters[k] # insert(new(Word, PERMUTATIONS), d, Word)
              /\ counters[k] # insert(new(Word, PERMUTATIONS), e, Word)

(***************************************************************************)
(* C6: the merge (&=, &: elementwise minimum) is associative, commutative  *)
(* and idempotent, new() is its identity, and merging x twice is merging   *)
(* x once.                                                                 *)
(***************************************************************************)
\* the sketches merged: the ones held, the sketch of each single value, new()
Operands ==
    {counters[k] : k \in Sketches}
    \cup {insert(new(Word, PERMUTATIONS), d, Word) : d \in Values}
    \cup {new(Word, PERMUTATIONS)}

C6_MergeLaws ==
    \A j, k \in Sketches :
        LET x == counters[j]
            y == counters[k]
            e == new(Word, PERMUTATIONS)
        IN  /\ bitand(x, y) = bitand(y, x)
            /\ bitand(x, x) = x
            /\ bitand(e, x) = x
            /\ bitand(x, e) = x
            /\ bitand_assign(bitand_assign(x, y), y) = bitand_assign(x, y)
            /\ bitand_assign(x, y) = bitand(x, y)
            /\ \A z \in Operands :
                  bitand(bitand(x, y), z) = bitand(x, bitand(y, z))

\* three sketches whose merge differs from each of them and from each merge
\* of two of them with the third
C6_Witness ==
    \E j, k \in Sketches : \E z \in Operands :
        LET x  == counters[j]
            y  == counters[k]
            xy == bitand(x, y)
        IN  /\ xy # x /\ xy # y
            /\ bitand(xy, z) # xy
            /\ bitand(xy, z) # z
            /\ bitand(y, z) # y /\ bitand(y, z) # z

(***************************************************************************)
(* C7: merging the sketches of the sets A and B (&=, & or intersection())  *)
(* gives exactly the sketch built by inserting every element of A \cup B:  *)
(* the operation named intersection computes the MinHash of the union.     *)
(***************************************************************************)
C7_MergeIsSketchOfUnion ==
    /\ \A j, k \in Sketches :
          LET union == InsertSeq(new(Word, PERMUTATIONS),
                                 SomeOrder(inserted[j] \cup inserted[k]))
          IN  /\ bitand_assign(counters[j], counters[k]) = union
              /\ bitand(counters[j], counters[k]) = union
              /\ intersection(<<counters[j], counters[k]>>, Word, PERMUTATIONS) = union
    /\ intersection(counters, Word, PERMUTATIONS)
          = InsertSeq(new(Word, PERMUTATIONS),
                      SomeOrder(UNION {inserted[k] : k \in Sketches}))

\* two sketches of sets neither of which holds the other, their merge being
\* neither of the two
C7_Witness ==
    \E j, k \in Sketches :
        /\ inserted[j] \ inserted[k] # {}
        /\ inserted[k] \ inserted[j] # {}
        /\ bitand(counters[j], counters[k]) # counters[j]
        /\ bitand(counters[j], counters[k]) # counters[k]
        /\ intersection(counters, Word, PERMUTATIONS) # counters[j]

(***************************************************************************)
(* C8: may_contain(value) is true exactly when slot[i] <= permutation[i]   *)
(* at every index i, permutation being the value's stream.  (may_contain   *)
(* takes &self and is an operator on the words: it has no effect.)         *)
(***************************************************************************)
C8_MayContainIffAllSlotsBelow ==
    \A k \in Sketches : \A d \in Values :
        may_contain(counters[k], d, Word)
            <=> \A i \in 1..PERMUTATIONS : WordLeq(counters[k][i], StreamAt(d, i))

\* a non-empty sketch with two slots that may contain a value never inserted
\* (a false positive), and one for which a value passes at one slot only
C8_Witness ==
    /\ PERMUTATIONS >= 2
    /\ \E k \in Sketches : \E d \in Values \ inserted[k] :
          /\ inserted[k] # {}
          /\ may_contain(counters[k], d, Word)
    /\ \E k \in Sketches : \E d \in Values :
          /\ inserted[k] # {}
          /\ ~may_contain(counters[k], d, Word)
          /\ \E i \in 1..PERMUTATIONS : WordLeq(counters[k][i], StreamAt(d, i))

(***************************************************************************)
(* C9: estimate_jaccard_index(other) returns the number of indices i with  *)
(* slot[i] == other.slot[i] divided by P, and for every pair of sketches   *)
(* the result is a value in [0, 1].                                        *)
(***************************************************************************)
\* the number of indices at which the two sketches agree
Agreeing(x, y) == Cardinality({i \in 1..PERMUTATIONS : x[i] = y[i]})

\* r is the f64 quotient of two integers and lies in [0, 1]
InUnitInterval(r) ==
    /\ r.class = "finite"
    /\ r.den > 0
    /\ 0 <= r.num
    /\ r.num <= r.den

C9_JaccardIsAgreeingOverP ==
    \A j, k \in Sketches :
        LET r == estimate_jaccard_index(counters[j], counters[k])
        IN  /\ InUnitInterval(r)
            /\ r.num = Agreeing(counters[j], counters[k])
            /\ r.den = PERMUTATIONS

\* the same for the sketches that have at least one slot
JaccardIsAgreeingOverPositiveP ==
    PERMUTATIONS >= 1 => C9_JaccardIsAgreeingOverP

(***************************************************************************)
(* C10: for a sketch with P = 0, is_empty() and is_full() are both true    *)
(* and estimate_jaccard_index returns a defined constant rather than       *)
(* dividing by zero.                                                       *)
(***************************************************************************)
C10_ZeroPermutationsAreDefined ==
    PERMUTATIONS = 0 =>
        \A j, k \in Sketches :
            /\ is_empty(counters[j], Word)
            /\ is_full(counters[j], Word)
            /\ estimate_jaccard_index(counters[j], counters[k]).class = "finite"

\* the part of it about is_empty and is_full
EmptyAndFullWithoutSlots ==
    PERMUTATIONS = 0 =>
        \A j \in Sketches : is_empty(counters[j], Word) /\ is_full(counters[j], Word)

(***************************************************************************)
(* C11: is_empty() is true if and only if no insertion has ever occurred   *)
(* on the sketch: true on new(), false after any insert of any value, for  *)
(* every Word and every P.                                                 *)
(***************************************************************************)
C11_EmptyIffNeverInserted ==
    \A k \in Sketches : is_empty(counters[k], Word) <=> inserted[k] = {}

\* the stream of the value has Word::MAX at each of the sketch's positions
StreamIsMaximal(digest) ==
    \A i \in 1..PERMUTATIONS : StreamAt(digest, i) = maximal(Word)

\* C11 as amended: is_empty() is true on new(), and after insertions it is
\* true exactly when every inserted value's stream is Word::MAX at all P
\* positions (always so for P = 0); an insert makes an empty sketch non-empty
\* exactly when the value's stream is not Word::MAX throughout
C11_EmptyIffStreamsMaximal ==
    /\ is_empty(new(Word, PERMUTATIONS), Word)
    /\ \A k \in Sketches :
          /\ is_empty(counters[k], Word)
                <=> \A d \in inserted[k] : StreamIsMaximal(d)
          /\ \A d \in Values :
                is_empty(insert(counters[k], d, Word), Word)
                    <=> is_empty(counters[k], Word) /\ StreamIsMaximal(d)

\* with P >= 1: one sketch is not empty after its inserts, the other one is
\* still empty after an insert
C11_Witness ==
    /\ PERMUTATIONS >= 1
    /\ \E j, k \in Sketches :
          /\ inserted[j] # {} /\ ~is_empty(counters[j], Word)
          /\ inserted[k] # {} /\ is_empty(counters[k], Word)

(***************************************************************************)
(* C12: a freshly constructed sketch (new() or default()) has every one of *)
(* its P slots equal to Word::MAX, is empty and is not full.               *)
(***************************************************************************)
\* (a sketch nothing was inserted or merged into is as new() made it)
C12_FreshIsEmptyAndNotFull ==
    \A k \in Sketches :
        inserted[k] = {} =>
            /\ Len(counters[k]) = PERMUTATIONS
            /\ \A i \in 1..PERMUTATIONS : counters[k][i] = maximal(Word)
            /\ is_empty(counters[k], Word)
            /\ ~is_full(counters[k], Word)

\* C12 as amended: a freshly constructed sketch has every one of its P slots
\* equal to Word::MAX and is empty; it is not full when P >= 1, and full
\* (as well as empty) when P = 0
C12_FreshIsEmptyAndFullOnlyWithoutSlots ==
    \A k \in Sketches :
        inserted[k] = {} =>
            /\ counters[k] = new(Word, PERMUTATIONS)
            /\ Len(counters[k]) = PERMUTATIONS
            /\ \A i \in 1..PERMUTATIONS : counters[k][i] = maximal(Word)
            /\ is_empty(counters[k], Word)
            /\ is_full(counters[k], Word) <=> PERMUTATIONS = 0

\* a fresh sketch with slots, next to one that became full by an insert
C12_Witness ==
    /\ PERMUTATIONS >= 1
    /\ \E j, k \in Sketches :
          /\ inserted[k] = {}
          /\ ~is_full(counters[k], Word)
          /\ inserted[j] # {}
          /\ is_full(counters[j], Word)

(***************************************************************************)
(* C13: on a freshly constructed sketch, may_contain returns false for     *)
(* every value, under each hash family.                                    *)
(***************************************************************************)
C13_FreshContainsNothing ==
    \A k \in Sketches :
        inserted[k] = {} =>
            \A d \in Values : ~may_contain(counters[k], d, Word)

\* C13 as amended: on a freshly constructed sketch, may_contain(value) is
\* false exactly when the value's stream has a value other than Word::MAX
\* among its first P positions; it is true for P = 0 and for a value whose
\* first P stream values are all Word::MAX
C13_FreshContainsOnlyMaximalStreams ==
    \A k \in Sketches :
        inserted[k] = {} =>
            \A d \in Values :
                may_contain(counters[k], d, Word) <=> StreamIsMaximal(d)

\* a fresh sketch with slots that may contain one value and not another
\* one, while the other sketch has been inserted into
C13_Witness ==
    /\ PERMUTATIONS >= 1
    /\ \E j, k \in Sketches :
          /\ inserted[k] = {}
          /\ inserted[j] # {}
          /\ \E d, e \in Values :
                /\ may_contain(counters[k], d, Word)
                /\ ~may_contain(counters[k], e, Word)

(***************************************************************************)
(* C14: none of the public sketch operations can fail at runtime; every    *)
(* input, including every index value given to the indexing of a sketch    *)
(* and of a sketch batch, yields a result without a panic or error.        *)
(***************************************************************************)
\* (new, insert, may_contain, is_empty, is_full, memory, the merges and the
\* estimator are total operators; indexing is the operation with an outcome)
C14_NoOperationFails ==
    /\ \A k \in Sketches : \A i \in 0..MaxPermutations :
          index(counters[k], i).outcome = "ok"
    /\ \A i \in 0..NumSketches : array_index(counters, i).outcome = "ok"

\* the same for the index values below the length
IndexingWithinLengthSucceeds ==
    /\ \A k \in Sketches : \A i \in 0..(PERMUTATIONS - 1) :
          /\ index(counters[k], i).outcome = "ok"
          /\ index(counters[k], i).value = counters[k][i + 1]
    /\ \A i \in 0..(NumSketches - 1) :
          /\ array_index(counters, i).outcome = "ok"
          /\ array_index(counters, i).value = counters[i + 1]

(***************************************************************************)
(* C16: memory() returns P times the bit width of Word for every Word and  *)
(* P (4096 for 32-bit words and P = 128, 128 * 64 for 64-bit words and     *)
(* P = 128), whatever the sketch holds.                                    *)
(***************************************************************************)
C16_MemoryIsBitFootprint ==
    /\ memory(Word, PERMUTATIONS) = PERMUTATIONS * Word
    /\ memory(32, 128) = 4096
    /\ memory(64, 128) = 128 * 64
    /\ \A w \in Widths : \A p \in {0, 1, 2, 16, 128, 1024} : memory(w, p) = p * w

\* sketches of 32-bit words with slots, one fresh and one not: 64 bits each
C16_Witness ==
    /\ Word = 32 /\ PERMUTATIONS = 2
    /\ memory(Word, PERMUTATIONS) = 64
    /\ \E j, k \in Sketches :
          /\ is_empty(counters[j], Word)
          /\ ~is_empty(counters[k], Word) /\ Cardinality(inserted[k]) >= 2

(***************************************************************************)
(* C15: a sketch built by from_iter / collect from a finite sequence of    *)
(* elements equals the fold of the unkeyed SipHash insert over the         *)
(* sequence from new(), and afterwards may_contain is true of every        *)
(* element of the sequence.                                                *)
(***************************************************************************)
\* the iterators that yield exactly the elements of S
IteratorsOver ==
    [S \in SUBSET Digests |->
        {iter \in Iterators : {iter[n] : n \in 1..Len(iter)} = S}]

\* (FromIter(iter) leaves the elements of iter in inserted[1]: the sketch held
\* was collected from one of the iterators over inserted[1])
C15_FromIterIsFoldOfInsert ==
    \A iter \in IteratorsOver[inserted[1]] :
        /\ counters[1] = InsertSeq(new(Word, PERMUTATIONS), iter)
        /\ from_iter(iter, Word, PERMUTATIONS)
              = InsertSeq(new(Word, PERMUTATIONS), iter)
        /\ \A n \in 1..Len(iter) : may_contain(counters[1], iter[n], Word)

\* a sketch collected from three distinct elements, two of them deciding one
\* slot each, which tells them from a value that was not in the sequence
C15_Witness ==
    /\ Cardinality(inserted[1]) = 3
    /\ counters[1] = from_iter(SomeOrder(inserted[1]), Word, PERMUTATIONS)
    /\ \E d, e \in inserted[1] :
          /\ Crossing(d, e)
          /\ counters[1][1] = StreamAt(d, 1)
          /\ counters[1][2] = StreamAt(e, 2)
    /\ \E d \in Values \ inserted[1] : ~may_contain(counters[1], d, Word)

(***************************************************************************)
(* C17: a sketch batch created with new() holds N freshly constructed      *)
(* sketches, and any operation (insert, merge, slot write) applied to the  *)
(* entry at index j leaves every entry at an index k # j unchanged.        *)
(***************************************************************************)
\* the entries other than j are the same before and after the step
OthersUnchanged(j) ==
    \A k \in Sketches \ {j} : counters'[k] = counters[k]

\* some operation applied to the entry at index j makes the step
AppliedTo(j) ==
    \/ \E d \in ArrayDigests : Insert(j, d)
    \/ \E k \in Sketches : BitAndAssign(j, k)
    \/ \E i \in 0..MaxPermutations, word \in WrittenWords :
          IndexMut(j - 1, i, word)
    \/ \E k \in 0..NumSketches : ArrayIndexMut(j - 1, k)
    \/ ArrayIndexMutNew(j - 1)

PassedSlot(k, i) ==
    inserted[k] \cup
    {workers[t].digest :
        t \in {u \in Threads : /\ workers[u] # Idle
                                /\ workers[u].sketch = k
                                /\ workers[u].index >= i}}

\* the words in memory never increase
MemoryNeverGrows ==
    \A k \in Sketches : \A i \in 1..PERMUTATIONS :
        WordLeq(counters'[k][i], counters[k][i])

\* stated of the words in memory; a plain read of them may give still others
C18_SlotIsMinimumOfExecutedSteps ==
    /\ [](\A k \in Sketches : \A i \in 1..PERMUTATIONS :
            counters[k][i] =
                MinWord({maximal(Word)} \cup {StreamAt(d, i) : d \in PassedSlot(k, i)}))
    /\ [][MemoryNeverGrows]_vars

(***************************************************************************)
(* C19: every fetch_insert call performs exactly one atomic fetch-min per  *)
(* slot, visiting the slots 0..P-1 once each in ascending order, with no   *)
(* lock, retry loop or wait on another thread; with any number of          *)
(* concurrent callers every started call eventually completes, under fair  *)
(* scheduling, after exactly P steps of its own.                           *)
(***************************************************************************)
\* the step of thread t is the entry of a call, the fetch-min on the slot after
\* the last one it visited (and on no other slot), or the return after P slots
OwnStep(t) ==
    \/ /\ workers[t] = Idle
       /\ workers'[t] # Idle /\ workers'[t].index = 0
       /\ counters' = counters
    \/ /\ workers[t] # Idle /\ workers'[t] # Idle
       /\ workers'[t].digest = workers[t].digest
       /\ workers'[t].sketch = workers[t].sketch
       /\ workers'[t].index = workers[t].index + 1
       /\ workers'[t].index <= PERMUTATIONS
       /\ \A k \in Sketches : \A i \in 1..PERMUTATIONS :
             counters'[k][i] =
                 IF k = workers[t].sketch /\ i = workers'[t].index
                 THEN MinWord({counters[k][i], StreamAt(workers[t].digest, i)})
                 ELSE counters[k][i]
    \/ /\ workers[t] # Idle
       /\ workers[t].index = PERMUTATIONS
       /\ workers'[t] = Idle
       /\ counters' = counters

C19_EachCallTakesPStepsAndCompletes ==
    /\ [][\E t \in Threads :
            /\ workers'[t] # workers[t]
            /\ OwnStep(t)
            /\ \A u \in Threads \ {t} : workers'[u] = workers[u]]_vars
    /\ \A t \in Threads : (workers[t] # Idle) ~> (workers[t] = Idle)

(***************************************************************************)
(* C20: the permutation stream is a pure function of the 64-bit digest: it *)
(* emits exactly P values, the value at 0-based position i being the       *)
(* advance transform applied i+1 times to the low-order W bits of          *)
(* scramble(scramble(digest)) (the converted seed is not an item of its    *)
(* own), whatever calls went before and whatever the sketch holds.         *)
(***************************************************************************)
\* the low-order w bits of a 64-bit value
LowBits(z, w) == [n \in 1..(w \div 8) |-> z[n]]

RECURSIVE AdvanceTimes(_, _, _)
\* the advance transform of the width w applied n times to x
AdvanceTimes(x, w, n) ==
    IF n = 0 THEN x ELSE xorshift(AdvanceTimes(x, w, n - 1), w)

\* what the claim says the stream holds at each 1-based position i
ClaimedStreams ==
    { [w |-> w, digest |-> d, i |-> i,
       value |-> AdvanceTimes(LowBits(splitmix(splitmix(d)), w), w, i)] :
      w \in HashedWidths, d \in Digests, i \in 1..MaxPermutations }

ClaimedAt(digest, i) ==
    (CHOOSE r \in ClaimedStreams : r.w = Word /\ r.digest = digest /\ r.i = i).value

C20_StreamIsAdvancedSeed ==
    \A d \in Values :
        /\ Len(iter_hashes(d, Word, PERMUTATIONS)) = PERMUTATIONS
        /\ \A i \in 1..PERMUTATIONS :
              /\ iter_hashes(d, Word, PERMUTATIONS)[i] = ClaimedAt(d, i)
              /\ \A p \in i..PERMUTATIONS : iter_hashes(d, Word, p)[i] = ClaimedAt(d, i)
              /\ \A k \in Sketches :
                    /\ insert(counters[k], d, Word)[i]
                          = MinWord({counters[k][i], ClaimedAt(d, i)})
                    /\ {words[i] : words \in fetch_insert(counters[k], d, Word)}
                          = {counters[k][i], MinWord({counters[k][i], ClaimedAt(d, i)})}

\* sketches of 16-bit words that hold inserted values, and a value whose
\* stream differs from its seed and from item to item
C20_Witness ==
    /\ Word = 16 /\ PERMUTATIONS = 2
    /\ \A k \in Sketches : Cardinality(inserted[k]) >= 2
    /\ \E d \in inserted[1] :
          /\ StreamAt(d, 1) # seed_of(d, Word)
          /\ StreamAt(d, 2) # StreamAt(d, 1)
          /\ StreamAt(d, 2) # seed_of(d, Word)
          /\ seed_of(d, Word) # seed_of(d, 64)

(***************************************************************************)
(* C21: for every supported word width (8, 16, 32, 64 bits and the         *)
(* platform width) the advance transform is a bijection on the words of    *)
(* that width, so the values one seed produces at distinct positions do    *)
(* not repeat within one cycle of the transform.                           *)
(***************************************************************************)
\* the types with an advance transform
AdvanceTypes ==
    {[name |-> "word", bits |-> w] : w \in HashedWidths}
    \cup {[name |-> "usize", bits |-> w] : w \in PointerWidths}

\* the advance transform of the type
Advance(x, type) ==
    IF type.name = "usize" THEN xorshift_usize(x, type.bits)
    ELSE xorshift(x, type.bits)

\* bit b (0 the least significant) of the word x
Bit(x, b) == (x[(b \div 8) + 1] \div Pow2(b % 8)) % 2

\* the word of the given width that has bit b set and no other
UnitWord(b, bits) == Shl(ZeroExtend(<<1>>, bits \div 8), b)

RECURSIVE UnitImages(_, _)
\* the images of the unit words of bits 0..n-1: the transform is linear over
\* GF(2), and these are the rows of its matrix
UnitImages(type, n) ==
    IF n = 0 THEN <<>>
    ELSE Append(UnitImages(type, n - 1), Advance(UnitWord(n - 1, type.bits), type))

RECURSIVE Cleared(_, _, _, _)
\* the first n rows, bit b cleared in each by adding the pivot row
Cleared(rows, pivot, b, n) ==
    IF n = 0 THEN <<>>
    ELSE Append(Cleared(rows, pivot, b, n - 1),
                IF Bit(rows[n], b) = 1 THEN Xor(rows[n], pivot) ELSE rows[n])

RECURSIVE FullRank(_, _, _)
\* Gaussian elimination over GF(2), bits b..bits-1 still to find a pivot for:
\* the rows are linearly independent
FullRank(rows, b, bits) ==
    IF b = bits THEN TRUE
    ELSE LET candidates == {n \in 1..Len(rows) : Bit(rows[n], b) = 1}
         IN  IF candidates = {} THEN FALSE
             ELSE LET p    == CHOOSE n \in candidates : TRUE
                      rest == SubSeq(rows, 1, p - 1) \o SubSeq(rows, p + 1, Len(rows))
                  IN  FullRank(Cleared(rest, rows[p], b, Len(rest)), b + 1, bits)

\* the transform is additive on the unit words: the image of the sum of two
\* is the sum of their images
AdditiveOnUnits(type) ==
    LET images == UnitImages(type, type.bits)
    IN  \A a, b \in 0..(type.bits - 1) :
            a < b =>
                Advance(Xor(UnitWord(a, type.bits), UnitWord(b, type.bits)), type)
                    = Xor(images[a + 1], images[b + 1])

\* every advance transform is linear with an invertible matrix, and the one
\* of u8 takes the 256 words to 256 different words
AdvanceIsInvertible ==
    /\ \A type \in AdvanceTypes :
          /\ FullRank(UnitImages(type, type.bits), 0, type.bits)
          /\ AdditiveOnUnits(type)
          /\ Advance(zero(type.bits), type) = zero(type.bits)
    /\ Cardinality({xorshift(<<x>>, 8) : x \in 0..255}) = 256

\* the words a slot can hold, each with its image under the advance transform
AdvancedSlotWords ==
    UNION { { [w |-> r.w, word |-> x, next |-> xorshift(x, r.w)] :
              x \in {r.hashes[i] : i \in 1..MaxPermutations}
                       \cup {maximal(r.w), zero(r.w)} } :
            r \in Streams }

\* the image of a slot's word
NextOf(x) ==
    (CHOOSE r \in AdvancedSlotWords : r.w = Word /\ r.word = x).next

\* no two of these words have the same image, and the image of a stream
\* value is the next value of the stream
AdvanceIsInjectiveOnSlotWords ==
    /\ \A r, q \in AdvancedSlotWords :
          (r.w = q.w /\ r.next = q.next) => r.word = q.word
    /\ \A r \in Streams : \A i \in 1..(MaxPermutations - 1) :
          xorshift(r.hashes[i], r.w) = r.hashes[i + 1]

\* with a bijection the stream of a seed lies on a cycle through the seed:
\* two positions hold the same value only a whole number of cycles apart
StreamsLieOnCycles ==
    \A r \in Streams : \A i, j \in 1..MaxPermutations :
        (i < j /\ r.hashes[i] = r.hashes[j])
            => AdvanceTimes(seed_of(r.digest, r.w), r.w, j - i) = seed_of(r.digest, r.w)

C21_AdvanceIsBijection ==
    /\ AdvanceIsInvertible
    /\ AdvanceIsInjectiveOnSlotWords
    /\ StreamsLieOnCycles
    /\ Word \in HashedWidths =>
          \A j, k \in Sketches : \A i \in 1..PERMUTATIONS :
              NextOf(counters[j][i]) = NextOf(counters[k][i])
                  => counters[j][i] = counters[k][i]

\* a sketch of 16-bit words whose slots hold stream values of different
\* elements, the stream of one of them not repeating
C21_Witness ==
    /\ Word = 16 /\ PERMUTATIONS = 2
    /\ \E k \in Sketches : \E d, e \in inserted[k] :
          /\ Crossing(d, e)
          /\ counters[k][1] = StreamAt(d, 1)
          /\ counters[k][2] = StreamAt(e, 2)
          /\ StreamAt(d, 1) # StreamAt(d, 2)
          /\ NextOf(counters[k][1]) # NextOf(counters[k][2])

(***************************************************************************)
(* The shifts of the advance transforms, stated on the set of the bits     *)
(* that are set in a word.                                                 *)
(***************************************************************************)
\* the positions of the bits set in x
BitsOf(x) == {b \in 0..(8 * Len(x) - 1) : Bit(x, b) = 1}

SymDiff(A, B) == (A \ B) \cup (B \ A)

\* S << n and S >> n in a word of the given width
ShlBits(S, n, bits) == {b + n : b \in {c \in S : c + n < bits}}
ShrBits(S, n) == {b - n : b \in {c \in S : c >= n}}

\* x ^= x << a; x ^= x >> b; x ^= x << c in a word of the given width
XorShiftBits(S, a, b, c, bits) ==
    LET s1 == SymDiff(S, ShlBits(S, a, bits))
        s2 == SymDiff(s1, ShrBits(s1, b))
    IN  SymDiff(s2, ShlBits(s2, c, bits))

Wide64(S) == XorShiftBits(S, 13, 7, 17, 64)
Wide32(S) == XorShiftBits(S, 13, 17, 5, 32)
Truncated(S, bits) == {b \in S : b < bits}

\* the transform of each width as stated: the narrow widths through a wider one
StatedAdvanceBits(S, w) ==
    CASE w = 64 -> {Wide64(S)}
      [] w = 32 -> {Wide32(S)}
      [] w = 16 -> {Truncated(Wide32(S), 16)}
      [] w = 8  -> {Truncated(Wide32(S), 8), Truncated(Wide64(S), 8)}

\* the transform of each width with the 8-bit one on its own shifts
OwnAdvanceBits(S, w) ==
    CASE w = 64 -> Wide64(S)
      [] w = 32 -> Wide32(S)
      [] w = 16 -> Truncated(Wide32(S), 16)
      [] w = 8  -> XorShiftBits(S, 3, 7, 1, 8)

\* the slot words whose image is the stated one, and the own one
AdvancedAsStated ==
    {r \in AdvancedSlotWords : BitsOf(r.next) \in StatedAdvanceBits(BitsOf(r.word), r.w)}
AdvancedAsOwn ==
    {r \in AdvancedSlotWords : BitsOf(r.next) = OwnAdvanceBits(BitsOf(r.word), r.w)}

\* the word x of the state's width with its image
Advanced(x) == CHOOSE r \in AdvancedSlotWords : r.w = Word /\ r.word = x

\* every unit word goes to what the own shifts make of its bit (the
\* transforms are linear, so the unit words fix them)
UnitWordsAdvanceAsOwn ==
    \A w \in HashedWidths : \A b \in 0..(w - 1) :
        BitsOf(xorshift(UnitWord(b, w), w)) = OwnAdvanceBits({b}, w)

\* C22 (as amended): the advance transform of u64 is the xorshift with the
\* shifts (<<13, >>7, <<17), of u32 (<<13, >>17, <<5), of u16 the u32
\* transform of the zero-extended word truncated to 16 bits, and of u8 the
\* xorshift with the shifts (<<3, >>7, <<1) computed in 8 bits.
C22_AdvanceShifts ==
    /\ UnitWordsAdvanceAsOwn
    /\ AdvancedSlotWords = AdvancedAsOwn
    /\ Word \in HashedWidths =>
          \A k \in Sketches : \A i \in 1..PERMUTATIONS :
              Advanced(counters[k][i]) \in AdvancedAsOwn

\* C22 (as stated): ..., and for both 16-bit and 8-bit words it is the
\* corresponding wider transform applied to the zero-extended word and
\* truncated to the word width.
C22_NarrowAdvanceIsWiderTruncated ==
    Word \in HashedWidths =>
        \A k \in Sketches : \A i \in 1..PERMUTATIONS :
            Advanced(counters[k][i]) \in AdvancedAsStated

\* a sketch of 8-bit words holding a stream value that the own shifts and
\* the truncated wider transforms advance differently
C22_Witness ==
    /\ Word = 8
    /\ \E k \in Sketches : \E i \in 1..PERMUTATIONS : \E d \in inserted[k] :
          /\ counters[k][i] = StreamAt(d, i)
          /\ counters[k][i] # zero(Word)
          /\ Advanced(counters[k][i]) \in AdvancedAsOwn \ AdvancedAsStated

(***************************************************************************)
(* The rounds of the scramble in each hash family.                         *)
(***************************************************************************)
Families == {"siphashes13", "keyed_siphashes13", "fvn", "keyed_fvn"}

\* the family whose hasher takes no key and is the documented default
DefaultFamily == "siphashes13"

\* the stream of a family for the digest its hasher finishes with
FamilyStream(family, digest, w, p) ==
    CASE family = "siphashes13"       -> iter_siphashes13_from_value(digest, w, p)
      [] family = "keyed_siphashes13" -> iter_keyed_siphashes13_from_value(digest, w, p)
      [] family = "fvn"               -> iter_fvn_from_value(digest, w, p)
      [] family = "keyed_fvn"         -> iter_keyed_fvn_from_value(digest, w, p)

RECURSIVE Scrambled(_, _)
\* the scramble applied the given number of times
Scrambled(z, rounds) ==
    IF rounds = 0 THEN z ELSE splitmix(Scrambled(z, rounds - 1))

\* the streams that 1 and 2 rounds of the scramble give
RoundStreams ==
    { [w |-> w, digest |-> d, i |-> i, rounds |-> n,
       value |-> AdvanceTimes(LowBits(Scrambled(d, n), w), w, i)] :
      w \in HashedWidths, d \in Digests, i \in 1..MaxPermutations, n \in 1..2 }

RoundsAt(digest, i, n) ==
    (CHOOSE r \in RoundStreams :
        r.w = Word /\ r.digest = digest /\ r.i = i /\ r.rounds = n).value

\* the family's streams are the ones that n rounds of the scramble give
ScramblesTimes(family, n) ==
    \A d \in Values : \A i \in 1..PERMUTATIONS :
        FamilyStream(family, d, Word, PERMUTATIONS)[i] = RoundsAt(d, i, n)

\* C23 (as amended): the scramble is applied twice to the digest before
\* narrowing in the path of every hash family (siphashes13, keyed
\* siphashes13, fvn, keyed fvn); the round count does not depend on the
\* family, and the words an insert leaves in a slot are two-round values.
C23_EveryFamilyScramblesTwice ==
    /\ \A family \in Families : ScramblesTimes(family, 2)
    /\ \A k \in Sketches : \A i \in 1..PERMUTATIONS :
          counters[k][i] \in {maximal(Word)} \cup {RoundsAt(d, i, 2) : d \in Values}

\* C23 (as stated): the scramble is applied twice in the unkeyed/default
\* path and once in some of the other hash-family paths.
C23_SomeFamilyScramblesOnce ==
    /\ ScramblesTimes(DefaultFamily, 2)
    /\ \E family \in Families \ {DefaultFamily} : ScramblesTimes(family, 1)

\* a slot holds the stream value of an inserted element for which one round
\* and two rounds of the scramble give different values
C23_Witness ==
    \E k \in Sketches : \E d \in inserted[k] : \E i \in 1..PERMUTATIONS :
        /\ counters[k][i] = StreamAt(d, i)
        /\ RoundsAt(d, i, 1) # RoundsAt(d, i, 2)
        /\ \A family \in Families :
              FamilyStream(family, d, Word, PERMUTATIONS)[i] = counters[k][i]

(***************************************************************************)
(* C24: once an insert or fetch_insert of element e has completed,         *)
(* may_contain(e) is true in every later state, whatever happens           *)
(* afterwards, other fetch_insert calls still in progress on the same      *)
(* sketch included.                                                        *)
(***************************************************************************)
\* stated of the words in memory; a plain read of them may give still others
C24_MayContainStaysTrue ==
    \A k \in Sketches : \A e \in inserted[k] : may_contain(counters[k], e, Word)

(***************************************************************************)
(* Zero slots.                                                             *)
(***************************************************************************)
\* the converted seed of each digest, by width
Seeds ==
    {[w |-> w, digest |-> d, seed |-> seed_of(d, w)] : w \in HashedWidths, d \in Digests}

\* the converted seed of the digest is zero
HasZeroSeed(d) ==
    (CHOOSE r \in Seeds : r.w = Word /\ r.digest = d).seed = zero(Word)

\* the advance transform takes zero to zero and no other slot word to zero
OnlyZeroAdvancesToZero ==
    /\ \A type \in AdvanceTypes : Advance(zero(type.bits), type) = zero(type.bits)
    /\ \A r \in AdvancedSlotWords : r.next = zero(r.w) <=> r.word = zero(r.w)

\* C25: for P >= 1, after any sequence of sequential insert and merge
\* operations from new() sketches, either every slot is zero or no slot is
\* zero: a slot reaches zero only through an element whose converted seed is
\* zero (the advance transform maps zero to zero and nothing else to zero),
\* and such an element sets all P slots to zero at once, making is_full()
\* true.
C25_AllSlotsZeroOrNone ==
    /\ AdvanceIsInvertible
    /\ OnlyZeroAdvancesToZero
    /\ PERMUTATIONS >= 1 =>
          \A k \in Sketches :
              /\ \/ \A i \in 1..PERMUTATIONS : counters[k][i] = zero(Word)
                 \/ \A i \in 1..PERMUTATIONS : counters[k][i] # zero(Word)
              /\ is_full(counters[k], Word) <=> \E d \in inserted[k] : HasZeroSeed(d)
              /\ \A d \in Values : \A i \in 1..PERMUTATIONS :
                    StreamAt(d, i) = zero(Word) <=> HasZeroSeed(d)

\* a sketch of several slots that held other elements is full once an element
\* with a zero seed went in, beside a sketch with elements and no zero slot
C25_Witness ==
    /\ PERMUTATIONS >= 2
    /\ \E j, k \in Sketches :
          /\ is_full(counters[k], Word)
          /\ \E d, e \in inserted[k] : HasZeroSeed(d) /\ ~HasZeroSeed(e)
          /\ inserted[j] # {}
          /\ ~is_full(counters[j], Word)
          /\ \A i \in 1..PERMUTATIONS : counters[j][i] # zero(Word)

(***************************************************************************)
(* C26: for every sketch S and value v under one hash configuration,       *)
(* insert(v) leaves S unchanged if and only if S.may_contain(v) was true   *)
(* before the call; a value reported as possibly contained never alters    *)
(* the sketch when inserted.                                               *)
(***************************************************************************)
C26_InsertIsNoOpIffMayContain ==
    \A k \in Sketches : \A d \in Values :
        insert(counters[k], d, Word) = counters[k] <=> may_contain(counters[k], d, Word)

\* a sketch with elements that an inserted value leaves as it is, and that
\* another value, below it in one slot and above it in another, would alter
C26_Witness ==
    /\ PERMUTATIONS >= 2
    /\ \E k \in Sketches : \E d \in inserted[k] : \E e \in Values \ inserted[k] :
          /\ may_contain(counters[k], d, Word)
          /\ insert(counters[k], d, Word) = counters[k]
          /\ ~may_contain(counters[k], e, Word)
          /\ insert(counters[k], e, Word) # counters[k]
          /\ \E i, j \in 1..PERMUTATIONS :
                /\ insert(counters[k], e, Word)[i] = counters[k][i]
                /\ insert(counters[k], e, Word)[j] # counters[k][j]

====
